---- MODULE Spec2Model ----
(***************************************************************************)
(* Model of solution.py: the "most active cookie" log scanner.             *)
(*                                                                         *)
(* One run of the program is  parse_args -> parse_file (open/skip header/  *)
(* readlines, bisect_left over the reversed list, backward scan) ->        *)
(* most_common(1) -> report loop.  The file content and the command line   *)
(* are the inputs; they are drawn when the program reads them.             *)
(*                                                                         *)
(* A data line is modelled by what split(",") and strptime see of it:      *)
(*   nf      number of comma-separated fields (1, 2 or 3)                  *)
(*   cookie  field 0                                                       *)
(*   ts      field 1: ok = it matches TIMESTAMP_FORMAT; date/slot = the    *)
(*           calendar date and time of day as written; off = UTC offset    *)
(* Indices i, lo, hi, mid, index are 0-based as in the source; a sequence  *)
(* element lines[i] of the source is lines[i + 1] here.                    *)
(***************************************************************************)
EXTENDS Integers, Sequences, FiniteSets

VARIABLES pc, argOK, date, fileState, lines, lo, hi, index, i, seen, high,
          pos, out, err

vars == <<pc, argOK, date, fileState, lines, lo, hi, index, i, seen, high,
          pos, out, err>>

----------------------------------------------------------------------------
(* Bounds of the model *)

NumDates == 3          \* calendar dates 1..NumDates
SlotsPerDay == 2       \* times of day 0..SlotsPerDay-1
MaxOff == 1            \* UTC offsets -MaxOff..MaxOff, in slots
MaxLen == 4            \* data lines of a well-formed date-descending file
MaxLenAny == 3         \* data lines of a file that may hold malformed lines
MaxLenTz == 2          \* data lines of a file with mixed UTC offsets

Keys == {"a", "b"}
Dates == 1..NumDates
Slots == 0..(SlotsPerDay - 1)
Offsets == (0 - MaxOff)..MaxOff

----------------------------------------------------------------------------
(* Input file format *)

BadTs == [ok |-> FALSE, date |-> 0, slot |-> 0, off |-> 0]

UtcTimestamp == [ok : {TRUE}, date : Dates, slot : {0}, off : {0}]
TzTimestamp == [ok : {TRUE}, date : Dates, slot : Slots, off : Offsets]

UtcLine == [nf : {2}, cookie : Keys, ts : UtcTimestamp]
\* files with mixed offsets hold one cookie
TzLine == [nf : {2}, cookie : {"a"}, ts : TzTimestamp]
\* the cookie of a line that fails to parse is never tallied: one value
AnyLine == UtcLine
           \cup [nf : {1}, cookie : {"a"}, ts : {BadTs}]
           \cup [nf : {3}, cookie : {"a"}, ts : UtcTimestamp]
           \cup [nf : {2}, cookie : {"a"}, ts : {BadTs}]

\* A line that splits into exactly two fields, the second a timestamp
WellFormedLine(l) == l.nf = 2 /\ l.ts.ok
WellFormed(ls) == \A k \in 1..Len(ls) : WellFormedLine(ls[k])

\* The instant a timestamp denotes: local time minus its UTC offset
Instant(ts) == ts.date * SlotsPerDay + ts.slot - ts.off

DateDescending(ls) ==
    \A k \in 1..(Len(ls) - 1) : ls[k].ts.date >= ls[k + 1].ts.date
InstantDescending(ls) ==
    \A k \in 1..(Len(ls) - 1) : Instant(ls[k].ts) >= Instant(ls[k + 1].ts)

RECURSIVE SeqsUpTo(_, _)
SeqsUpTo(S, n) ==
    IF n = 0 THEN {<<>>}
    ELSE LET P == SeqsUpTo(S, n - 1)
         IN  P \cup {Append(x[1], x[2]) :
                       x \in {y \in P \X S : Len(y[1]) = n - 1}}

RECURSIVE DescSeqsUpTo(_, _)
DescSeqsUpTo(S, n) ==
    IF n = 0 THEN {<<>>}
    ELSE LET P == DescSeqsUpTo(S, n - 1)
         IN  P \cup {Append(x[1], x[2]) :
                       x \in {y \in P \X S :
                                /\ Len(y[1]) = n - 1
                                /\ DateDescending(Append(y[1], y[2]))}}

RECURSIVE InstantSeqsUpTo(_, _)
InstantSeqsUpTo(S, n) ==
    IF n = 0 THEN {<<>>}
    ELSE LET P == InstantSeqsUpTo(S, n - 1)
         IN  P \cup {Append(x[1], x[2]) :
                       x \in {y \in P \X S :
                                /\ Len(y[1]) = n - 1
                                /\ InstantDescending(Append(y[1], y[2]))}}

SortedFiles == DescSeqsUpTo(UtcLine, MaxLen)
AnyFiles == SeqsUpTo(AnyLine, MaxLenAny)
TzFiles == InstantSeqsUpTo(TzLine, MaxLenTz)
Files == SortedFiles \cup AnyFiles \cup TzFiles

FileStates == {"missing", "empty", "ok"}

----------------------------------------------------------------------------
(* Helpers of parse_file *)

\* lines[::-1]
Reverse(s) == [k \in 1..Len(s) |-> s[Len(s) + 1 - k]]

\* bisect key: x.split(",")[1] exists and strptime accepts it
KeyOK(l) == l.nf >= 2 /\ l.ts.ok
\* bisect key: strptime(...).date()
KeyDate(l) == l.ts.date

\* variant: the scan keeps the first two fields and ignores any further one
UnpackOK_AtLeast(l) == l.nf >= 2

\* scan: "cookie, timestamp = line.split(',')" unpacks
UnpackOK(l) == l.nf = 2
\* scan: the line unpacks and strptime accepts the timestamp
ScanOK(l) == UnpackOK(l) /\ l.ts.ok

\* variant: bisect_right's comparison
BisectLess_Right(k, x) == k <= x

\* bisect_left goes right when key(a[mid]) < x
BisectLess(k, x) == k < x

\* variant: the range starts one line too early
StartIndex_OffByOne(n, idx) == n - idx - 2

\* first value of range(len(lines) - index - 1, -1, -1)
StartIndex(n, idx) == n - idx - 1

\* Counter, in insertion order: a sequence of [cookie, n]
HasKey(t, c) == \E k \in 1..Len(t) : t[k].cookie = c
CountOf(t, c) ==
    IF HasKey(t, c)
    THEN (CHOOSE e \in {t[k] : k \in 1..Len(t)} : e.cookie = c).n
    ELSE 0

\* variant: "seen[cookie] = 1"
Tally_Assign(t, c) ==
    IF HasKey(t, c)
    THEN [k \in 1..Len(t) |->
            IF t[k].cookie = c THEN [t[k] EXCEPT !.n = 1] ELSE t[k]]
    ELSE Append(t, [cookie |-> c, n |-> 1])

\* seen[cookie] += 1
Tally(t, c) ==
    IF HasKey(t, c)
    THEN [k \in 1..Len(t) |->
            IF t[k].cookie = c THEN [t[k] EXCEPT !.n = @ + 1] ELSE t[k]]
    ELSE Append(t, [cookie |-> c, n |-> 1])

\* variant: the count of the first entry, "list(counts.values())[0]"
MostCommonCount_First(t) == t[1].n

\* counts.most_common(1)[0][1] of a non-empty Counter
MostCommonCount(t) ==
    CHOOSE m \in {t[k].n : k \in 1..Len(t)} : \A k \in 1..Len(t) : t[k].n <= m

----------------------------------------------------------------------------
(* The run *)

Init ==
    /\ pc = "args"
    /\ argOK = FALSE
    /\ date = 0
    /\ fileState = "unopened"
    /\ lines = <<>>
    /\ lo = 0
    /\ hi = 0
    /\ index = 0
    /\ i = 0
    /\ seen = <<>>
    /\ high = 0
    /\ pos = 0
    /\ out = <<>>
    /\ err = "none"

\* parse_args: strptime of the -d flag, sys.exit(1) on ValueError
ParseArgs ==
    /\ pc = "args"
    /\ \E ok \in BOOLEAN, d \in Dates :
         /\ argOK' = ok
         /\ IF ok
            THEN /\ date' = d
                 /\ pc' = "load"
                 /\ err' = "none"
            ELSE /\ date' = 0
                 /\ pc' = "failed"
                 /\ err' = "InvalidDateFormat"
    /\ UNCHANGED <<fileState, lines, lo, hi, index, i, seen, high, pos, out>>

\* open(filename), next(fp), fp.readlines(); bisect_left starts with
\* lo = 0, hi = len(a)
Load ==
    /\ pc = "load"
    /\ \E fs \in FileStates, ls \in Files :
         /\ fileState' = fs
         /\ CASE fs = "missing" ->
                   /\ lines' = <<>>
                   /\ pc' = "failed"
                   /\ err' = "IOError"
              [] fs = "empty" ->
                   /\ lines' = <<>>
                   /\ pc' = "failed"
                   /\ err' = "StopIteration"
              [] fs = "ok" ->
                   /\ lines' = ls
                   /\ pc' = "locate"
                   /\ err' = "none"
         /\ lo' = 0
         /\ hi' = IF fs = "ok" THEN Len(ls) ELSE 0
    /\ UNCHANGED <<argOK, date, index, i, seen, high, pos, out>>

\* one iteration of bisect_left's loop over lines[::-1]
BisectStep ==
    /\ pc = "locate"
    /\ lo < hi
    /\ LET mid == (lo + hi) \div 2
           x == Reverse(lines)[mid + 1]
       IN  IF ~KeyOK(x)
           THEN /\ pc' = "failed"
                /\ err' = "ParseError"
                /\ UNCHANGED <<lo, hi>>
           ELSE /\ IF BisectLess(KeyDate(x), date)
                   THEN lo' = mid + 1 /\ hi' = hi
                   ELSE hi' = mid /\ lo' = lo
                /\ UNCHANGED <<pc, err>>
    /\ UNCHANGED <<argOK, date, fileState, lines, index, i, seen, high, pos,
                   out>>

\* bisect_left returns lo; the for loop's range starts
BisectDone ==
    /\ pc = "locate"
    /\ lo >= hi
    /\ index' = lo
    /\ i' = StartIndex(Len(lines), lo)
    /\ pc' = "count"
    /\ UNCHANGED <<argOK, date, fileState, lines, lo, hi, seen, high, pos,
                   out, err>>

\* variant: the scan prints each matching cookie as it counts it
ScanStep_PrintEarly ==
    /\ pc = "count"
    /\ i >= 0
    /\ LET l == lines[i + 1]
       IN  IF ~ScanOK(l)
           THEN /\ pc' = "failed"
                /\ err' = "ParseError"
                /\ UNCHANGED <<i, seen, out>>
           ELSE IF date # l.ts.date
           THEN /\ pc' = "max"
                /\ UNCHANGED <<i, seen, err, out>>
           ELSE /\ seen' = Tally(seen, l.cookie)
                /\ out' = Append(out, l.cookie)
                /\ i' = i - 1
                /\ UNCHANGED <<pc, err>>
    /\ UNCHANGED <<argOK, date, fileState, lines, lo, hi, index, high, pos>>

\* one iteration of the backward scan
ScanStep ==
    /\ pc = "count"
    /\ i >= 0
    /\ LET l == lines[i + 1]
       IN  IF ~ScanOK(l)
           THEN /\ pc' = "failed"
                /\ err' = "ParseError"
                /\ UNCHANGED <<i, seen>>
           ELSE IF date # l.ts.date
           THEN /\ pc' = "max"
                /\ UNCHANGED <<i, seen, err>>
           ELSE /\ seen' = Tally(seen, l.cookie)
                /\ i' = i - 1
                /\ UNCHANGED <<pc, err>>
    /\ UNCHANGED <<argOK, date, fileState, lines, lo, hi, index, high, pos,
                   out>>

\* the range is exhausted; parse_file returns seen
ScanDone ==
    /\ pc = "count"
    /\ i < 0
    /\ pc' = "max"
    /\ UNCHANGED <<argOK, date, fileState, lines, lo, hi, index, i, seen,
                   high, pos, out, err>>

\* variant: "max(counts.values(), default=0)", no failure on an empty Counter
ReadHigh_Default ==
    /\ pc = "max"
    /\ high' = IF seen = <<>> THEN 0 ELSE MostCommonCount(seen)
    /\ pos' = 1
    /\ pc' = "report"
    /\ UNCHANGED <<argOK, date, fileState, lines, lo, hi, index, i, seen,
                   out, err>>

\* high = counts.most_common(1)[0][1]; IndexError on an empty Counter
ReadHigh ==
    /\ pc = "max"
    /\ IF seen = <<>>
       THEN /\ pc' = "failed"
            /\ err' = "EmptyResultError"
            /\ UNCHANGED <<high, pos>>
       ELSE /\ high' = MostCommonCount(seen)
            /\ pos' = 1
            /\ pc' = "report"
            /\ UNCHANGED err
    /\ UNCHANGED <<argOK, date, fileState, lines, lo, hi, index, i, seen,
                   out>>

\* variant: the loop skips a lower count instead of breaking
ReportStep_Continue ==
    /\ pc = "report"
    /\ pos <= Len(seen)
    /\ IF seen[pos].n = high
       THEN out' = Append(out, seen[pos].cookie)
       ELSE out' = out
    /\ pos' = pos + 1
    /\ UNCHANGED <<argOK, date, fileState, lines, lo, hi, index, i, seen,
                   high, err, pc>>

\* one iteration of "for cookie in counts"
ReportStep ==
    /\ pc = "report"
    /\ pos <= Len(seen)
    /\ IF seen[pos].n = high
       THEN /\ out' = Append(out, seen[pos].cookie)
            /\ pos' = pos + 1
            /\ UNCHANGED pc
       ELSE /\ pc' = "done"
            /\ UNCHANGED <<out, pos>>
    /\ UNCHANGED <<argOK, date, fileState, lines, lo, hi, index, i, seen,
                   high, err>>

\* the Counter is exhausted; the program ends
ReportDone ==
    /\ pc = "report"
    /\ pos > Len(seen)
    /\ pc' = "done"
    /\ UNCHANGED <<argOK, date, fileState, lines, lo, hi, index, i, seen,
                   high, pos, out, err>>

Next ==
    \/ ParseArgs
    \/ Load
    \/ BisectStep
    \/ BisectDone
    \/ ScanStep
    \/ ScanDone
    \/ ReadHigh
    \/ ReportStep
    \/ ReportDone

Spec == Init /\ [][Next]_vars

TypeOK ==
    /\ pc \in {"args", "load", "locate", "count", "max", "report", "done",
               "failed"}
    /\ lines \in Files
    /\ i \in -1..Len(lines)

----------------------------------------------------------------------------
(* Reference definitions for the properties: a full linear scan of the     *)
(* file, independent of the binary search and of the Counter               *)

\* indices (1-based) of the lines whose written date is d
Matching(ls, d) == {k \in 1..Len(ls) : ls[k].ts.date = d}

\* brute-force count of cookie c on date d
BruteCount(ls, d, c) ==
    Cardinality({k \in Matching(ls, d) : ls[k].cookie = c})

MaxOfSet(S) == CHOOSE m \in S : \A x \in S : x <= m

BruteMax(ls, d) == MaxOfSet({BruteCount(ls, d, c) : c \in Keys})

\* cookies of the table, in insertion order
KeysOf(t) == [k \in 1..Len(t) |-> t[k].cookie]

SeqRange(q) == {q[k] : k \in 1..Len(q)}

NoDuplicates(q) == \A j, k \in 1..Len(q) : q[j] = q[k] => j = k

\* cookies of the lines dated d in the order a walk from the last line
\* toward the first meets them for the first time
RECURSIVE EncounterOrder(_, _, _, _)
EncounterOrder(ls, d, k, acc) ==
    IF k = 0 THEN acc
    ELSE IF ls[k].ts.date = d /\ ls[k].cookie \notin SeqRange(acc)
         THEN EncounterOrder(ls, d, k - 1, Append(acc, ls[k].cookie))
         ELSE EncounterOrder(ls, d, k - 1, acc)

\* parse_file has returned its table
Counted ==
    \/ pc \in {"max", "report", "done"}
    \/ pc = "failed" /\ err = "EmptyResultError"

\* the run is over
Ended == pc \in {"done", "failed"}

\* the file was opened and its data lines read
Loaded == fileState = "ok"

SortedLog == Loaded /\ WellFormed(lines) /\ DateDescending(lines)

----------------------------------------------------------------------------
(* Properties *)

\* C1: on a well-formed log sorted by written date descending, the table
\* parse_file returns equals, key by key and count by count, the table of a
\* full linear scan counting every line dated D; a key with no record on D
\* is absent from the table.
C1_TableEqualsBruteForce ==
    (Counted /\ SortedLog) =>
        /\ \A c \in Keys : CountOf(seen, c) = BruteCount(lines, date, c)
        /\ \A k \in 1..Len(seen) : seen[k].n >= 1
        /\ NoDuplicates(KeysOf(seen))

C1_Witness ==
    /\ Counted /\ SortedLog
    /\ Len(lines) >= 4
    /\ \E k \in 1..Len(lines) : lines[k].ts.date > date
    /\ \E k \in 1..Len(lines) : lines[k].ts.date < date
    /\ \E c \in Keys : CountOf(seen, c) = 2 /\ BruteCount(lines, date, c) = 2

\* C2: on a well-formed date-descending log with a matching record, the set
\* of printed keys is exactly the set of keys whose count in the table is the
\* maximum count.
C2_PrintsExactlyMaxKeys ==
    (pc = "done" /\ SortedLog) =>
        SeqRange(out) =
            {seen[k].cookie : k \in {j \in 1..Len(seen) :
                seen[j].n = MaxOfSet({seen[m].n : m \in 1..Len(seen)})}}

\* C3: on a well-formed date-descending log (possibly without data lines)
\* and a target date with no matching record, the run ends in the
\* EmptyResultError failure, never as a success.
C3_EmptyResultFails ==
    (Ended /\ SortedLog /\ Matching(lines, date) = {}) =>
        /\ pc = "failed"
        /\ err = "EmptyResultError"
        /\ out = <<>>

C3_Witness ==
    /\ Ended /\ SortedLog /\ Matching(lines, date) = {}
    /\ \E k \in 1..Len(lines) : lines[k].ts.date > date
    /\ \E k \in 1..Len(lines) : lines[k].ts.date < date
    /\ err = "EmptyResultError"

\* C4 (as stated): whenever the file holds a data line that does not split
\* into exactly two fields, the run aborts with a parse failure and prints
\* no key.
C4_AnyMalformedLineAborts ==
    (Ended /\ Loaded /\ \E k \in 1..Len(lines) : lines[k].nf # 2) =>
        /\ pc = "failed"
        /\ err = "ParseError"
        /\ out = <<>>

\* C4 (amended): when the binary search probes a line with fewer than two
\* fields, or the backward scan visits a line that does not split into
\* exactly two fields, the run aborts at that step with a parse failure and
\* has printed no key.
C4_VisitedMalformedLineAborts ==
    [][ ( \/ /\ pc = "locate" /\ lo < hi
             /\ lines[Len(lines) - ((lo + hi) \div 2)].nf < 2
          \/ /\ pc = "count" /\ i >= 0
             /\ lines[i + 1].nf # 2 )
        => (pc' = "failed" /\ err' = "ParseError" /\ out' = <<>>) ]_vars

C4_Witness ==
    /\ pc = "failed" /\ err = "ParseError"
    /\ seen # <<>>
    /\ lines[i + 1].nf = 3
    /\ out = <<>>

\* C5: on a well-formed log sorted by timestamp instant descending (UTC
\* offsets taken into account), the table parse_file returns equals the
\* table of a full linear scan counting every line whose written date is D.
C5_TableEqualsBruteForceByInstant ==
    (Counted /\ Loaded /\ WellFormed(lines) /\ InstantDescending(lines)) =>
        \A c \in Keys : CountOf(seen, c) = BruteCount(lines, date, c)

\* C6: on a well-formed date-descending log where exactly one record matches
\* the target date, the run succeeds and prints exactly that record's key.
C6_SingleMatchPrinted ==
    (Ended /\ SortedLog /\ Cardinality(Matching(lines, date)) = 1) =>
        /\ pc = "done"
        /\ \A k \in Matching(lines, date) : out = <<lines[k].cookie>>

C6_Witness ==
    /\ pc = "done" /\ SortedLog
    /\ Cardinality(Matching(lines, date)) = 1
    /\ Len(lines) >= 3
    /\ Len(out) = 1

\* C7: a run that ends in a failure has written nothing to standard output;
\* the phases follow one another in the order Load, Locate, Count, Report,
\* and a key is printed only in the report phase, after the count phase
\* ended without error and the maximum was read from a non-empty table.
C7_PhaseOrder ==
    {<<"args", "load">>, <<"load", "locate">>, <<"locate", "count">>,
     <<"count", "max">>, <<"max", "report">>, <<"report", "done">>,
     <<"args", "failed">>, <<"load", "failed">>, <<"locate", "failed">>,
     <<"count", "failed">>, <<"max", "failed">>}

C7_NoOutputOnFailure ==
    /\ [](pc = "failed" => out = <<>>)
    /\ [][pc' # pc => <<pc, pc'>> \in C7_PhaseOrder]_vars
    /\ [][out' # out =>
            /\ pc = "report"
            /\ err = "none"
            /\ seen # <<>>
            /\ high = MaxOfSet({seen[k].n : k \in 1..Len(seen)})]_vars

C7_Witness ==
    /\ pc = "failed" /\ err = "ParseError"
    /\ seen # <<>>
    /\ out = <<>>

\* C8: the report emits exactly the longest prefix of the table's insertion
\* order in which every count equals the maximum; insertion order is the
\* order of first encounter by the backward scan; no key is emitted twice;
\* emission stops at the first lower count even if a later key has the
\* maximum.
C8_MaxPrefixLen(t) ==
    MaxOfSet({n \in 0..Len(t) :
        \A k \in 1..n : t[k].n = MaxOfSet({t[m].n : m \in 1..Len(t)})})

C8_EmitsMaxPrefix ==
    /\ (pc = "done") =>
          /\ seen # <<>>
          /\ out = SubSeq(KeysOf(seen), 1, C8_MaxPrefixLen(seen))
          /\ NoDuplicates(out)
    /\ (Counted /\ SortedLog) =>
          KeysOf(seen) = EncounterOrder(lines, date, Len(lines), <<>>)

C8_Witness ==
    /\ pc = "done" /\ SortedLog
    /\ Len(seen) = 2
    /\ seen[1].n = 1
    /\ seen[2].n = 2
    /\ out = <<>>

\* C9: on a well-formed date-descending list the binary search returns the
\* number of lines dated strictly before the target; the scan's start index
\* len(lines)-index-1 is the highest index whose date is >= the target, is
\* -1 when every line is older (the scan then visits no line), and lies in
\* -1..len(lines)-1.
C9_Older == {k \in 1..Len(lines) : lines[k].ts.date < date}

C9_StartIndex ==
    /\ [][(pc = "locate" /\ pc' = "count" /\ SortedLog) =>
            /\ index' = Cardinality(C9_Older)
            /\ i' = Len(lines) - index' - 1
            /\ i' \in -1..(Len(lines) - 1)
            /\ i' >= 0 => lines[i' + 1].ts.date >= date
            /\ \A k \in 1..Len(lines) : k > i' + 1 => lines[k].ts.date < date
            /\ Cardinality(C9_Older) = Len(lines) => i' = -1]_vars
    /\ []((Counted /\ SortedLog /\ Cardinality(C9_Older) = Len(lines))
            => seen = <<>>)

C9_Witness ==
    /\ pc = "count" /\ SortedLog
    /\ Len(lines) >= 4
    /\ index = 2
    /\ i = Len(lines) - 3
    /\ Cardinality(C9_Older) = 2
    /\ seen = <<>>

\* C10: on a well-formed date-descending log with a matching record the run
\* succeeds, and its output is non-empty exactly when the key of the first
\* record scanned (the matching record at the highest index) has the maximum
\* count; otherwise the run succeeds having printed nothing.
C10_FirstKey == lines[MaxOfSet(Matching(lines, date))].cookie

C10_OutputIffFirstKeyMax ==
    (Ended /\ SortedLog /\ Matching(lines, date) # {}) =>
        /\ pc = "done"
        /\ (out # <<>>) <=>
              (BruteCount(lines, date, C10_FirstKey) = BruteMax(lines, date))

C10_Witness ==
    /\ pc = "done" /\ SortedLog
    /\ Matching(lines, date) # {}
    /\ BruteCount(lines, date, C10_FirstKey) < BruteMax(lines, date)
    /\ out = <<>>
====
